---- MODULE Spec2Model ----
(***************************************************************************)
(* vulnix: whitelist filtering (vulnix/output.py, class Filtered), report  *)
(* rendering (output_text, output_json, output) and derivation discovery   *)
(* (vulnix/nix.py, class Store).                                           *)
(*                                                                         *)
(* Python sets are objects: `self.report = vulnerabilities` keeps a        *)
(* reference to the caller's set, `-=` and `|=` change a set object in     *)
(* place and `self.report = set()` binds a new object.  The model keeps    *)
(* the set objects in `heap` and the references in `report` and `given`.   *)
(***************************************************************************)
EXTENDS Integers, Sequences, FiniteSets, TLC

(* ---------------------------------------------------------------- bounds *)
MaxRecords == 2     \* records in one `nix path-info -r --json` result
MaxElements == 2    \* elements in a profile's manifest.json
MaxRules == 2       \* add() calls on one Filtered instance
MaxDate == 2        \* expiry dates are 1..MaxDate
MaxScore == 2       \* CVSSv3 scores are 0..MaxScore (0: unscored)

(* ------------------------------------------------------------- universes *)
Insts == {1, 2}                 \* Filtered instances
CveIds == {1, 2, 3}             \* advisory identifiers, ordered as the ids are
NoDate == 0                     \* `until = None`
Dates == 1..MaxDate
Scores == 0..MaxScore
\* A Vulnerability is equal to and hashes as its cve_id: a set of advisories
\* is a set of identifiers, the score is looked up in cvssv3.
ArgObj(i) == <<"vulnerabilities", i>>   \* the set object passed to Filtered(i)
NewObj(i) == <<"set()", i>>             \* the object `self.report = set()` binds
ObjIds == {ArgObj(i) : i \in Insts} \cup {NewObj(i) : i \in Insts}
\* WhitelistRule: the fields add() reads
WhitelistRules == [cve : SUBSET CveIds, until : {NoDate} \cup Dates]

VARIABLES
    heap,       \* set object -> its elements
    report,     \* Filtered.report: a reference to a set object
    masked,     \* Filtered.masked: elements of the instance's own set
    rules,      \* Filtered.rules: the applied rules, in order
    until,      \* Filtered.until: NoDate or a date
    given,      \* the caller's reference to the constructor's argument
    initial,    \* elements of that argument when the constructor ran
    cvssv3,     \* Vulnerability.cvssv3 of each advisory
    description,\* Vulnerability.description of each advisory ("": none)
    live,       \* the instances of this run
    whitelist,  \* the rules of this run's whitelist
    cap,        \* add() calls this run makes on each instance
    last,       \* the last call: its arguments and what it returned / wrote
    exists,     \* the paths os.path.exists finds
    recipes,    \* what derivation.load makes of each recipe file
    nixdb,      \* what the nix tools answer
    manifest,   \* the profile: its manifest.json, or the nix-env listing
    shapes,     \* the JSON shapes the tools of each Store's run write
    store,      \* the Store instances
    slast       \* the last Store call: its arguments, result and commands

fvars == <<heap, report, masked, rules, until, given, initial, cvssv3, description, live,
           whitelist, cap>>
svars == <<exists, recipes, nixdb, manifest, shapes, store, slast>>
vars == <<fvars, last, svars>>

NoCall == [op |-> "none", inst |-> 0, rule |-> [cve |-> {}, until |-> NoDate],
           pre_report |-> {}, pre_masked |-> {}, pre_until |-> NoDate,
           show |-> FALSE, json |-> FALSE, items |-> <<>>, out |-> <<>>, ret |-> 0]

\* no Store in this run
NoStoreCall == [op |-> "none", store |-> 0, path |-> <<>>, qpi_deriver |-> <<>>,
                ret |-> <<>>, err |-> [kind |-> "", named |-> <<>>, path |-> <<>>],
                calls |-> <<>>, pre |-> {}, before |-> <<>>]
StoreIdle ==
    /\ exists = {} /\ recipes = <<>> /\ nixdb = <<>> /\ manifest = <<>>
    /\ shapes = <<>> /\ store = <<>> /\ slast = NoStoreCall

\* the elements of self.report
Report(i) == heap[report[i]]

(* --------------------------------------------------------- Filtered.add *)
\* Python truth value of a date or None, and of a set
TruthyDate(d) == d # NoDate
TruthySet(s) == s # {}

\* lines 48-50
NewUntilNoCompare(cur, wl_rule) ==
    IF TruthyDate(wl_rule.until) THEN wl_rule.until ELSE cur
NewUntil(cur, wl_rule) ==
    IF TruthyDate(wl_rule.until)
    THEN IF ~TruthyDate(cur) \/ cur > wl_rule.until THEN wl_rule.until ELSE cur
    ELSE cur

\* line 53: set(vuln for vuln in self.report if vuln.cve_id in wl_rule.cve)
MaskAll(rep, cve) == rep
MaskRule(rep, cve) == cve
Mask(rep, cve) == {vuln \in rep : vuln \in cve}

\* lines 52-55: the loop body runs once per element of wl_rule.cve;
\* the result is <<report, masked>>
RECURSIVE MaskLoop(_, _, _, _)
MaskLoop(n, rep, msk, cve) ==
    IF n = 0 THEN <<rep, msk>>
    ELSE LET mask == Mask(rep, cve)
         IN MaskLoop(n - 1, rep \ mask, msk \cup mask, cve)

\* lines 57-58: self.masked |= self.report; self.report = set();
\* the result is <<report, masked>>
BlanketAssign(rep, msk) == <<{}, rep>>
BlanketKeep(rep, msk) == <<rep, msk \cup rep>>
Blanket(rep, msk) == <<{}, msk \cup rep>>

\* lines 46-58
add(i, wl_rule) ==
    /\ i \in live
    /\ Len(rules[i]) < cap[i]
    /\ rules' = [rules EXCEPT ![i] = Append(@, wl_rule)]
    /\ until' = [until EXCEPT ![i] = NewUntil(@, wl_rule)]
    /\ IF TruthySet(wl_rule.cve)
       THEN LET res == MaskLoop(Cardinality(wl_rule.cve), Report(i), masked[i], wl_rule.cve)
            IN /\ heap' = [heap EXCEPT ![report[i]] = res[1]]      \* -= in place
               /\ masked' = [masked EXCEPT ![i] = res[2]]
               /\ report' = report
       ELSE LET res == Blanket(Report(i), masked[i])
            IN /\ masked' = [masked EXCEPT ![i] = res[2]]
               /\ report' = [report EXCEPT ![i] = NewObj(i)]       \* a new set object
               /\ heap' = [heap EXCEPT ![NewObj(i)] = res[1]]
    /\ last' = [NoCall EXCEPT !.op = "add", !.inst = i, !.rule = wl_rule,
                              !.pre_report = Report(i), !.pre_masked = masked[i],
                              !.pre_until = until[i]]
    /\ UNCHANGED <<given, initial, cvssv3, description, live, whitelist, cap, svars>>

Add == \E i \in Insts, wl_rule \in whitelist : add(i, wl_rule)

(* ------------------------------------------------------- Filtered.__init__ *)
\* lines 32-38, for the instances in `lv`, each constructed from its own set
\* object holding init[i]
Constructed(lv, init, scores, descs, wl_rules, caps) ==
    /\ live = lv
    /\ initial = init
    /\ given = [i \in Insts |-> ArgObj(i)]
    /\ heap = [o \in ObjIds |-> IF o[1] = "vulnerabilities" THEN init[o[2]] ELSE {}]
    /\ report = [i \in Insts |-> ArgObj(i)]
    /\ masked = [i \in Insts |-> {}]
    /\ rules = [i \in Insts |-> <<>>]
    /\ until = [i \in Insts |-> NoDate]
    /\ cvssv3 = scores
    /\ description = descs
    /\ whitelist = wl_rules
    /\ cap = caps
    /\ last = NoCall

NoScores == [v \in CveIds |-> 0]
NoDescriptions == [v \in CveIds |-> ""]
\* no Filtered in this run
FilteredIdle ==
    Constructed({}, [i \in Insts |-> {}], NoScores, NoDescriptions, {}, [i \in Insts |-> 0])

\* one Filtered instance, rules applied to it up to MaxRules times
Init ==
    /\ \E s \in SUBSET CveIds :
        Constructed({1}, [i \in Insts |-> IF i = 1 THEN s ELSE {}], NoScores,
                    NoDescriptions, WhitelistRules,
                    [i \in Insts |-> IF i = 1 THEN MaxRules ELSE 0])
    /\ StoreIdle

Next == Add

Spec == Init /\ [][Next]_vars


\* Two Filtered instances constructed from equal advisory sets (all three
\* advisories, or two of them), each from its own set object; the rules of a whitelist of one or two rules are applied
\* to each, in any order and any number of times up to MaxRules.
Whitelists == {{r1, r2} : r1, r2 \in WhitelistRules}
InitOrder ==
    /\ \E s \in {CveIds, {1, 2}}, w \in Whitelists :
        Constructed(Insts, [i \in Insts |-> s], NoScores, NoDescriptions, w,
                    [i \in Insts |-> MaxRules])
    /\ StoreIdle
NextOrder == Add
SpecOrder == InitOrder /\ [][NextOrder]_vars

\* Two Filtered instances constructed from one advisory set, passed to both
\* constructors as the same set object or as two equal set objects
\* (lines 34-38: self.report = vulnerabilities); one rule applied to each.
InitAlias ==
    /\ \E s \in SUBSET CveIds, shared \in BOOLEAN :
          /\ initial = [i \in Insts |-> s]
          /\ given = [i \in Insts |-> IF shared THEN ArgObj(1) ELSE ArgObj(i)]
          /\ heap = [o \in ObjIds |->
                        IF o = ArgObj(1) \/ (o = ArgObj(2) /\ ~shared) THEN s ELSE {}]
    /\ report = given
    /\ live = Insts
    /\ masked = [i \in Insts |-> {}]
    /\ rules = [i \in Insts |-> <<>>]
    /\ until = [i \in Insts |-> NoDate]
    /\ cvssv3 = NoScores
    /\ description = NoDescriptions
    /\ whitelist = WhitelistRules
    /\ cap = [i \in Insts |-> 1]
    /\ last = NoCall
    /\ StoreIdle
NextAlias == Add
SpecAlias == InitAlias /\ [][NextAlias]_vars

(* ------------------------------------------------------------- rendering *)
\* what click.echo / click.secho / json.dumps write, one entry per line or
\* block: kind "vuln" (id: the advisory, wl: marked [whitelisted]),
\* "derivation" (lines 66-74; id: the derivation, wl: dimmed), and the
\* messages of output_text (id: the count they show)
Line(kind, id, wl) == [kind |-> kind, id |-> id, wl |-> wl]

\* Vulnerability.__lt__: advisories order by identifier
VulnLt(a, b) == a < b

\* Python's order of 2-tuples <<score key, advisory>>
TupleLt(k1, k2) == k1[1] < k2[1] \/ (k1[1] = k2[1] /\ VulnLt(k1[2], k2[2]))

\* lines 18-20
vuln_sort_key_ascending(v) == <<cvssv3[v], v>>
vuln_sort_key(v) == <<-cvssv3[v], v>>

\* sorted(S, key=vuln_sort_key) of a set of advisories
RECURSIVE sorted_vulns(_)
sorted_vulns(S) ==
    IF S = {} THEN <<>>
    ELSE LET m == CHOOSE x \in S :
                    \A y \in S : ~TupleLt(vuln_sort_key(y), vuln_sort_key(x))
         IN <<m>> \o sorted_vulns(S \ {m})

\* sorted(v.cve_id for v in S)
RECURSIVE sorted_ids(_)
sorted_ids(S) ==
    IF S = {} THEN <<>>
    ELSE LET m == CHOOSE x \in S : \A y \in S : x <= y
         IN <<m>> \o sorted_ids(S \ {m})

\* Derive orders by name; the derivation of Filtered instance i is named i
DerivationLt(i, j) == i < j

\* sorted(seq, key=attrgetter("derivation")): a stable insertion sort
RECURSIVE Insert(_, _)
Insert(x, seq) ==
    IF seq = <<>> THEN <<x>>
    ELSE IF DerivationLt(x, Head(seq)) THEN <<x>> \o seq
    ELSE <<Head(seq)>> \o Insert(x, Tail(seq))
RECURSIVE sorted_by_derivation(_)
sorted_by_derivation(seq) ==
    IF seq = <<>> THEN <<>>
    ELSE Insert(seq[Len(seq)], sorted_by_derivation(SubSeq(seq, 1, Len(seq) - 1)))

RECURSIVE VulnLines(_, _)
VulnLines(seq, wl) ==
    IF seq = <<>> THEN <<>>
    ELSE <<Line("vuln", Head(seq), wl)>> \o VulnLines(Tail(seq), wl)

\* lines 60-79 of Filtered.print: what it writes (the issue and comment lines
\* 81-90 repeat fields of the rules that add() does not read)
PrintLines(i, show_masked) ==
    IF ~TruthySet(Report(i)) /\ ~show_masked THEN <<>>
    ELSE <<Line("derivation", i, ~TruthySet(Report(i)))>>
         \o VulnLines(sorted_vulns(Report(i)), FALSE)
         \o (IF show_masked THEN VulnLines(sorted_vulns(masked[i]), TRUE) ELSE <<>>)

\* Filtered.print
print(i, show_masked) ==
    /\ i \in live
    /\ last' = [NoCall EXCEPT !.op = "print", !.inst = i, !.show = show_masked,
                              !.out = PrintLines(i, show_masked)]
    /\ UNCHANGED <<fvars, svars>>

FilteredPrint == \E i \in Insts, show_masked \in BOOLEAN : print(i, show_masked)

\* lines 94-95: [v for v in vulns if v.report] (want) or if not v.report
RECURSIVE WithReport(_, _)
WithReport(vulns, want) ==
    IF vulns = <<>> THEN <<>>
    ELSE (IF TruthySet(Report(Head(vulns))) = want THEN <<Head(vulns)>> ELSE <<>>)
         \o WithReport(Tail(vulns), want)

RECURSIVE PrintAll(_, _)
PrintAll(seq, show_masked) ==
    IF seq = <<>> THEN <<>>
    ELSE PrintLines(Head(seq), show_masked) \o PrintAll(Tail(seq), show_masked)

\* lines 93-120
output_text_unsorted(vulns, show_whitelisted) ==
    LET rep == WithReport(vulns, TRUE)
        wl == WithReport(vulns, FALSE)
    IN IF rep = <<>> /\ ~show_whitelisted
       THEN IF wl # <<>> THEN <<Line("nothing to show", Len(wl), FALSE)>>
            ELSE <<Line("no advisories", 0, FALSE)>>
       ELSE <<Line("active", Len(rep), FALSE)>>
            \o (IF wl # <<>> /\ ~show_whitelisted
                THEN <<Line("left out", Len(wl), FALSE)>> ELSE <<>>)
            \o PrintAll(rep, show_whitelisted)
            \o (IF show_whitelisted THEN PrintAll(wl, show_whitelisted) ELSE <<>>)
            \o (IF wl # <<>> /\ ~show_whitelisted
                THEN <<Line("hint", 0, FALSE)>> ELSE <<>>)
output_text(vulns, show_whitelisted) ==
    LET rep == WithReport(vulns, TRUE)
        wl == WithReport(vulns, FALSE)
    IN IF rep = <<>> /\ ~show_whitelisted
       THEN IF wl # <<>> THEN <<Line("nothing to show", Len(wl), FALSE)>>
            ELSE <<Line("no advisories", 0, FALSE)>>
       ELSE <<Line("active", Len(rep), FALSE)>>
            \o (IF wl # <<>> /\ ~show_whitelisted
                THEN <<Line("left out", Len(wl), FALSE)>> ELSE <<>>)
            \o PrintAll(sorted_by_derivation(rep), show_whitelisted)
            \o (IF show_whitelisted
                THEN PrintAll(sorted_by_derivation(wl), show_whitelisted) ELSE <<>>)
            \o (IF wl # <<>> /\ ~show_whitelisted
                THEN <<Line("hint", 0, FALSE)>> ELSE <<>>)

\* lines 128-145: the object of one item (name, pname, version and the store
\* path are fields of the derivation, here the derivation itself)
JsonObjectActiveOnly(i) ==
    [name |-> i,
     affected_by |-> sorted_ids(Report(i)),
     whitelisted |-> sorted_ids(masked[i]),
     cvssv3_basescore |-> {<<v, cvssv3[v]>> : v \in {w \in Report(i) : cvssv3[w] # 0}},
     description |-> {<<v, description[v]>> : v \in {w \in Report(i) : description[w] # ""}}]
JsonObject(i) ==
    [name |-> i,
     affected_by |-> sorted_ids(Report(i)),
     whitelisted |-> sorted_ids(masked[i]),
     cvssv3_basescore |-> {<<v, cvssv3[v]>> : v \in {w \in Report(i) \cup masked[i] : cvssv3[w] # 0}},
     description |-> {<<v, description[v]>> : v \in {w \in Report(i) \cup masked[i] : description[w] # ""}}]

\* lines 123-147
RECURSIVE JsonObjects(_, _)
JsonObjects(seq, show_whitelisted) ==
    IF seq = <<>> THEN <<>>
    ELSE (IF ~TruthySet(Report(Head(seq))) /\ ~show_whitelisted THEN <<>>
          ELSE <<JsonObject(Head(seq))>>)
         \o JsonObjects(Tail(seq), show_whitelisted)
output_json(items, show_whitelisted) ==
    JsonObjects(sorted_by_derivation(items), show_whitelisted)

\* lines 155-159
ExitCodeMaskedFirst(items, show_whitelisted) ==
    IF show_whitelisted /\ \E k \in 1..Len(items) : TruthySet(masked[items[k]]) THEN 1
    ELSE IF \E k \in 1..Len(items) : TruthySet(Report(items[k])) THEN 2
    ELSE 0
ExitCode(items, show_whitelisted) ==
    IF \E k \in 1..Len(items) : TruthySet(Report(items[k])) THEN 2
    ELSE IF show_whitelisted /\ \E k \in 1..Len(items) : TruthySet(masked[items[k]]) THEN 1
    ELSE 0

\* lines 150-159
output(items, json_dump, show_whitelisted) ==
    /\ last.op # "output"
    /\ last' = [NoCall EXCEPT !.op = "output", !.items = items, !.json = json_dump,
                              !.show = show_whitelisted,
                              !.out = IF json_dump THEN output_json(items, show_whitelisted)
                                      ELSE output_text(items, show_whitelisted),
                              !.ret = ExitCode(items, show_whitelisted)]
    /\ UNCHANGED <<fvars, svars>>

\* the collections output() is called with: the instances of the run, in any
\* order, any of them left out
RECURSIVE Perms(_)
Perms(S) ==
    IF S = {} THEN {<<>>}
    ELSE UNION {{<<x>> \o p : p \in Perms(S \ {x})} : x \in S}
ItemLists == UNION {Perms(S) : S \in SUBSET live}

Output ==
    \E items \in ItemLists, json_dump \in BOOLEAN, show_whitelisted \in BOOLEAN :
        output(items, json_dump, show_whitelisted)

\* one Filtered instance with scored advisories, one rule, printed
InitSort ==
    /\ \E s \in SUBSET CveIds, scores \in [CveIds -> Scores] :
        Constructed({1}, [i \in Insts |-> IF i = 1 THEN s ELSE {}], scores,
                    NoDescriptions, WhitelistRules, [i \in Insts |-> IF i = 1 THEN 1 ELSE 0])
    /\ StoreIdle
NextSort == Add \/ FilteredPrint
SpecSort == InitSort /\ [][NextSort]_vars

\* the Filtered instances of a report, one rule without expiry each, rendered
\* by output(); output() changes no instance, and a run ends with it
Permanent == {r \in WhitelistRules : r.until = NoDate}
InitRender ==
    /\ \E init \in [Insts -> SUBSET CveIds] :
        Constructed(Insts, init, NoScores, NoDescriptions, Permanent, [i \in Insts |-> 1])
    /\ StoreIdle
NextRender == (last.op # "output" /\ Add) \/ Output
SpecRender == InitRender /\ [][NextRender]_vars

\* output_json over two Filtered instances whose advisories have scores and
\* descriptions or lack them; one rule, a blanket or a specific one, is
\* applied to each instance
OutputJson ==
    \E items \in ItemLists, show_whitelisted \in BOOLEAN : output(items, TRUE, show_whitelisted)
JsonRules == {r \in Permanent : r.cve \in {{}, {1, 2}}}
InitJson ==
    /\ \E init \in [Insts -> SUBSET CveIds], scores \in [CveIds -> {0, MaxScore}],
          descs \in [CveIds -> {"", "text"}] :
        Constructed(Insts, init, scores, descs, JsonRules, [i \in Insts |-> 1])
    /\ StoreIdle
NextJson == (last.op # "output" /\ Add) \/ OutputJson
SpecJson == InitJson /\ [][NextJson]_vars

(* ================================================================ Store *)
\* A path is the sequence of its parts, the suffix ".drv" a part of its own;
\* "" is the empty sequence.
None == <<"None">>                      \* Python's None
Empty == <<>>                           \* ""
Unknown == <<"unknown-deriver">>
Undef == <<"undef">>                    \* the default of qpi_deriver
A == <<"/nix/store/a">>
B == <<"/nix/store/b">>
ADrv == <<"/nix/store/a", ".drv">>
BDrv == <<"/nix/store/b", ".drv">>
OutPaths == {A, B}
DrvPaths == {ADrv, BDrv}
Paths == OutPaths \cup DrvPaths
StoreIds == {1, 2}
SkipDrv == "SkipDrv"                    \* load() raises SkipDrv

\* Python truth value of a string or None
Truthy(x) == x # None /\ x # Empty
\* path.endswith(".drv")
endswith_drv(path) == Len(path) > 0 /\ path[Len(path)] = ".drv"

NoError == [kind |-> "", named |-> <<>>, path |-> <<>>]
Command(cmd, experimental, arg) == [cmd |-> cmd, experimental |-> experimental, arg |-> arg]

\* What one call works on: the Store's fields it changes, the commands it has
\* run and the exception it has raised.
Machine(s) == [derivations |-> store[s].derivations,
               experimental_flag_needed |-> store[s].experimental_flag_needed,
               calls |-> <<>>, err |-> NoError]
Raised(m) == m.err.kind # ""

\* call([...]) of a command that is not `nix`
call(m, cmd, arg) == [m EXCEPT !.calls = Append(@, Command(cmd, FALSE, arg))]

\* lines 57-65
_call_nix_always_probe(m, cmd, arg) ==
    LET probed == [m EXCEPT !.experimental_flag_needed =
                                IF nixdb.help THEN "True" ELSE "False",
                            !.calls = Append(@, Command("nix --help", FALSE, Empty))]
    IN [probed EXCEPT !.calls =
            Append(@, Command(cmd, probed.experimental_flag_needed = "True", arg))]
_call_nix(m, cmd, arg) ==
    LET probed == IF m.experimental_flag_needed = "None"
                  THEN [m EXCEPT !.experimental_flag_needed =
                                     IF nixdb.help THEN "True" ELSE "False",
                                 !.calls = Append(@, Command("nix --help", FALSE, Empty))]
                  ELSE m
    IN [probed EXCEPT !.calls =
            Append(@, Command(cmd, probed.experimental_flag_needed = "True", arg))]

\* lines 86-95: the RuntimeError raised
DeriverError(path, qpi_deriver, qvd_deriver) ==
    LET named == (IF Truthy(qpi_deriver) /\ qpi_deriver # Unknown
                  THEN <<qpi_deriver>> ELSE <<>>)
                 \o (IF Truthy(qvd_deriver) /\ qvd_deriver # qpi_deriver
                     THEN <<qvd_deriver>> ELSE <<>>)
    IN IF named # <<>>
       THEN [kind |-> "Couldn't find deriver", named |-> named, path |-> path]
       ELSE [kind |-> "Cannot determine deriver", named |-> <<>>, path |-> path]

\* lines 67-95; the result is [m, ret]
_find_deriver_description_first(m, path, qpi_deriver) ==
    IF ~Truthy(path) \/ ~Truthy(qpi_deriver) THEN [m |-> m, ret |-> None]
    ELSE IF endswith_drv(path) THEN [m |-> m, ret |-> path]
    ELSE LET asked == qpi_deriver = Undef
             m1 == IF asked THEN call(m, "nix-store -qd", path) ELSE m
             qpi == IF asked THEN nixdb.qd[path] ELSE qpi_deriver
             m2 == _call_nix(m1, "nix show-derivation", path)
             qvd_deriver == nixdb.show[path].key
         IN IF Truthy(qvd_deriver) /\ qvd_deriver \in exists
            THEN [m |-> m2, ret |-> qvd_deriver]
            ELSE IF Truthy(qpi) /\ qpi # Unknown /\ qpi \in exists
            THEN [m |-> m2, ret |-> qpi]
            ELSE [m |-> [m2 EXCEPT !.err = DeriverError(path, qpi, qvd_deriver)],
                  ret |-> None]
_find_deriver(m, path, qpi_deriver) ==
    IF ~Truthy(path) \/ ~Truthy(qpi_deriver) THEN [m |-> m, ret |-> None]
    ELSE IF endswith_drv(path) THEN [m |-> m, ret |-> path]
    ELSE LET asked == qpi_deriver = Undef
             m1 == IF asked THEN call(m, "nix-store -qd", path) ELSE m
             qpi == IF asked THEN nixdb.qd[path] ELSE qpi_deriver
         IN IF Truthy(qpi) /\ qpi # Unknown /\ qpi \in exists
            THEN [m |-> m1, ret |-> qpi]
            ELSE LET m2 == _call_nix(m1, "nix show-derivation", path)
                     qvd_deriver == nixdb.show[path].key
                 IN IF Truthy(qvd_deriver) /\ qvd_deriver \in exists
                    THEN [m |-> m2, ret |-> qvd_deriver]
                    ELSE [m |-> [m2 EXCEPT !.err = DeriverError(path, qpi, qvd_deriver)],
                          ret |-> None]

\* lines 97-105; the result is [m, ret]
_find_outputs(m, path) ==
    IF ~endswith_drv(path) THEN [m |-> m, ret |-> <<path>>]
    ELSE [m |-> _call_nix(m, "nix show-derivation", path), ret |-> nixdb.show[path].outputs]

\* lines 145-152
update_replace(m, drv_path) ==
    IF ~Truthy(drv_path) \/ ~endswith_drv(drv_path) THEN m
    ELSE IF recipes[drv_path] = SkipDrv THEN m
    ELSE [m EXCEPT !.derivations = {recipes[drv_path]}]
update(m, drv_path) ==
    IF ~Truthy(drv_path) \/ ~endswith_drv(drv_path) THEN m
    ELSE IF recipes[drv_path] = SkipDrv THEN m
    ELSE [m EXCEPT !.derivations = @ \cup {recipes[drv_path]}]

\* lines 125-128 and 130-134: the (outpath, drv) pairs read from the
\* path-info result.  A mapping is the sequence of its (key, value) items, in
\* the order json.loads keeps; dict.get gives None for a missing field.
Get(info, field) == IF field \in DOMAIN info THEN info[field] ELSE None
DictPairs(data) == [k \in 1..Len(data) |-> <<data[k][1], Get(data[k][2], "deriver")>>]
ListPairsNoDeriver(data) == [k \in 1..Len(data) |-> <<Get(data[k], "path"), Undef>>]
ListPairs(data) == [k \in 1..Len(data) |-> <<Get(data[k], "path"), Get(data[k], "deriver")>>]

\* the loop bodies, lines 126-128 and 131-134: an exception ends the loop
RECURSIVE AddPairs(_, _)
AddPairs(m, pairs) ==
    IF pairs = <<>> \/ Raised(m) THEN m
    ELSE LET found == _find_deriver(m, Head(pairs)[1], Head(pairs)[2])
         IN IF Raised(found.m) THEN found.m
            ELSE AddPairs(update(found.m, found.ret), Tail(pairs))

\* `nix path-info -r --json out_path` as the tools of Store s's run write it
PathInfoJson(s, out_path) ==
    LET content == nixdb.path_info[out_path]
    IN IF shapes[s].path_info = "dict"
       THEN [shape |-> "dict",
             data |-> [k \in 1..Len(content) |->
                          <<content[k].path, [deriver |-> content[k].deriver]>>]]
       ELSE [shape |-> "list", data |-> content]

\* lines 118-136
RECURSIVE AddOutputs(_, _, _)
AddOutputs(m, s, outputs) ==
    IF outputs = <<>> \/ Raised(m) THEN m
    ELSE LET m1 == _call_nix(m, "nix path-info -r --json", Head(outputs))
             json == PathInfoJson(s, Head(outputs))
             m2 == IF json.data = <<>> THEN m1
                   ELSE IF json.shape = "dict" THEN AddPairs(m1, DictPairs(json.data))
                   ELSE IF json.shape = "list" THEN AddPairs(m1, ListPairs(json.data))
                   ELSE m1
         IN AddOutputs(m2, s, Tail(outputs))

\* lines 140-141
RECURSIVE UpdateAll(_, _)
UpdateAll(m, candidates) ==
    IF candidates = <<>> THEN m
    ELSE UpdateAll(update(m, Head(candidates)), Tail(candidates))

\* lines 107-143
add_path_deriver_only(m, s, path) ==
    IF path \notin exists
    THEN [m EXCEPT !.err = [kind |-> "does not exist", named |-> <<>>, path |-> path]]
    ELSE IF store[s].closure
    THEN LET outs == _find_outputs(m, path)
         IN AddOutputs(outs.m, s, outs.ret)
    ELSE LET found == _find_deriver(m, path, Undef)
         IN IF Raised(found.m) THEN found.m
            ELSE update(found.m, found.ret)
add_path_unchecked(m, s, path) ==
    IF store[s].closure
    THEN LET outs == _find_outputs(m, path)
         IN AddOutputs(outs.m, s, outs.ret)
    ELSE LET found == _find_deriver(m, path, Undef)
         IN IF Raised(found.m) THEN found.m
            ELSE IF store[s].requisites
            THEN UpdateAll(call(found.m, "nix-store -qR", found.ret),
                           nixdb.requisites[found.ret])
            ELSE update(found.m, found.ret)
add_path(m, s, path) ==
    IF path \notin exists
    THEN [m EXCEPT !.err = [kind |-> "does not exist", named |-> <<>>, path |-> path]]
    ELSE IF store[s].closure
    THEN LET outs == _find_outputs(m, path)
         IN AddOutputs(outs.m, s, outs.ret)
    ELSE LET found == _find_deriver(m, path, Undef)
         IN IF Raised(found.m) THEN found.m
            ELSE IF store[s].requisites
            THEN UpdateAll(call(found.m, "nix-store -qR", found.ret),
                           nixdb.requisites[found.ret])
            ELSE update(found.m, found.ret)

RECURSIVE AddPaths(_, _, _)
AddPaths(m, s, paths) ==
    IF paths = <<>> \/ Raised(m) THEN m
    ELSE AddPaths(add_path(m, s, Head(paths)), s, Tail(paths))

\* json_manifest["elements"] as the nix of Store s's run wrote it
ManifestJson(s) ==
    IF shapes[s].manifest = "dict"
    THEN [shape |-> "dict",
          elements |-> [k \in 1..Len(manifest.elements) |-> <<k, manifest.elements[k]>>]]
    ELSE [shape |-> "list", elements |-> manifest.elements]

\* lines 38-39 and 45: the elements the loops visit
DictElements(elements) == [k \in 1..Len(elements) |-> elements[k][2]]
ListElements(elements) == elements

\* lines 40-43 and 46-49
RECURSIVE AddElements(_, _, _)
AddElements(m, s, elements) ==
    IF elements = <<>> \/ Raised(m) THEN m
    ELSE AddElements(IF ~Head(elements).active THEN m
                     ELSE AddPaths(m, s, Head(elements).storePaths),
                     s, Tail(elements))

\* lines 27-55
add_profile(m, s) ==
    IF manifest.present
    THEN LET json == ManifestJson(s)
         IN IF json.shape = "dict" THEN AddElements(m, s, DictElements(json.elements))
            ELSE AddElements(m, s, ListElements(json.elements))
    ELSE AddPaths(call(m, "nix-env -q --out-path --profile", Empty), s, manifest.listing)

\* `nix-store --gc --print-live`: the live paths, which exist
LivePaths == SelectSeq(<<A, ADrv, B, BDrv>>, LAMBDA q : q \in exists)

\* lines 18-25
add_gc_roots(m) == UpdateAll(call(m, "nix-store --gc --print-live", Empty), LivePaths)

\* lines 154-165: pkgs is the sequence of what Derive(name=..., patches=...)
\* makes of each package, a Derive or the SkipDrv it raises
load_pkgs_json(m, pkgs) ==
    [m EXCEPT !.derivations = @ \cup ({pkgs[k] : k \in 1..Len(pkgs)} \ {SkipDrv})]

\* the `nix --help` runs among the commands of one call
Probes(calls) == Cardinality({k \in 1..Len(calls) : calls[k].cmd = "nix --help"})

\* the Store after a call that ended in m
Stored(s, m) == [store[s] EXCEPT !.derivations = m.derivations,
                                 !.experimental_flag_needed = m.experimental_flag_needed,
                                 !.err = m.err,
                                 !.probes = @ + Probes(m.calls)]
Alive(s) == store[s].err.kind = ""

\* lines 12-16; err is the exception that ended the instance's run, probes
\* counts the `nix --help` runs the instance has made
NewStore(requisites, closure) ==
    [requisites |-> requisites, closure |-> closure, derivations |-> {},
     experimental_flag_needed |-> "None", err |-> NoError, probes |-> 0]

\* Store._find_deriver, as add_path calls it
find_deriver(s, path, qpi_deriver) ==
    /\ Alive(s)
    /\ LET found == _find_deriver(Machine(s), path, qpi_deriver)
       IN /\ store' = [store EXCEPT ![s] = Stored(s, found.m)]
          /\ slast' = [NoStoreCall EXCEPT !.op = "_find_deriver", !.store = s,
                          !.path = path, !.qpi_deriver = qpi_deriver,
                          !.ret = found.ret, !.err = found.m.err,
                          !.calls = found.m.calls, !.pre = store[s].derivations,
                          !.before = store]
    /\ UNCHANGED <<fvars, last, exists, recipes, nixdb, manifest, shapes>>

\* one call on Store s that ended in m and returned ret; an exception ends
\* the run
StoreCall(s, op, path, m, ret) ==
    /\ \A t \in StoreIds : Alive(t)
    /\ store' = [store EXCEPT ![s] = Stored(s, m)]
    /\ slast' = [NoStoreCall EXCEPT !.op = op, !.store = s, !.path = path, !.ret = ret,
                    !.err = m.err, !.calls = m.calls, !.pre = store[s].derivations,
                    !.before = store]
    /\ UNCHANGED <<fvars, last, exists, recipes, nixdb, manifest, shapes>>

AddPath(s, path) == StoreCall(s, "add_path", path, add_path(Machine(s), s, path), None)
AddProfile(s) == StoreCall(s, "add_profile", Empty, add_profile(Machine(s), s), None)
AddGcRoots(s) == StoreCall(s, "add_gc_roots", Empty, add_gc_roots(Machine(s)), None)
Update(s, drv_path) == StoreCall(s, "update", drv_path, update(Machine(s), drv_path), None)
LoadPkgsJson(s, pkgs) ==
    StoreCall(s, "load_pkgs_json", Empty, load_pkgs_json(Machine(s), pkgs), None)

(* ------------------------------------------------- Store: specifications *)
QdReplies == {Empty, Unknown, ADrv, BDrv}       \* `nix-store -qd path`, stripped
KeyReplies == {Empty, ADrv, BDrv}               \* the key of `nix show-derivation`
Record(path, deriver) == [path |-> path, deriver |-> deriver]
Element(active, storePaths) == [active |-> active, storePaths |-> storePaths]

\* the recipes a.drv (output a) and b.drv (outputs a and b); the tools answer
\* the same for every output path
NixDb(help, qd, key, path_info) ==
    [help |-> help,
     qd |-> [p \in OutPaths |-> qd],
     show |-> [p \in Paths |-> [key |-> IF p \in OutPaths THEN key ELSE p,
                                outputs |-> IF p = ADrv THEN <<A>>
                                            ELSE IF p = BDrv THEN <<A, B>> ELSE <<>>]],
     path_info |-> path_info,
     requisites |-> [p \in DrvPaths |-> IF p = ADrv THEN <<ADrv>> ELSE <<ADrv, BDrv, B>>]]
\* load(): the Derive of each recipe file; Derive objects are equal by name
BothLoad == [p \in DrvPaths |-> IF p = ADrv THEN "foo-1" ELSE "bar-2"]
OneElement == [present |-> TRUE, elements |-> <<Element(TRUE, <<A>>)>>, listing |-> <<>>]
\* the run of Store 1 has the nix that writes mappings, that of Store 2 the
\* nix that writes lists
NewAndOldNix == [s \in StoreIds |-> IF s = 1 THEN [manifest |-> "dict", path_info |-> "dict"]
                                    ELSE [manifest |-> "list", path_info |-> "list"]]

\* _find_deriver on the paths and with the deriver metadata add_path can pass
InitDeriver ==
    /\ FilteredIdle
    /\ \E ex \in SUBSET DrvPaths, help \in BOOLEAN, qd \in QdReplies, key \in KeyReplies :
          /\ exists = OutPaths \cup ex
          /\ nixdb = NixDb(help, qd, key, [p \in OutPaths |-> <<>>])
    /\ recipes = BothLoad
    /\ manifest = OneElement
    /\ shapes = NewAndOldNix
    /\ store = [s \in StoreIds |-> NewStore(TRUE, FALSE)]
    /\ slast = NoStoreCall
NextDeriver ==
    \E s \in StoreIds, path \in {None, Empty, A, ADrv},
       qpi_deriver \in {Undef, None, Empty, Unknown, ADrv, BDrv} :
        find_deriver(s, path, qpi_deriver)
SpecDeriver == InitDeriver /\ [][NextDeriver]_vars

\* what load() makes of the recipe files: two derivations, one derivation
\* under both paths, a recipe that is skipped
Loads == {BothLoad, [p \in DrvPaths |-> "foo-1"],
          [p \in DrvPaths |-> IF p = ADrv THEN SkipDrv ELSE "bar-2"]}
ListedProfile == [present |-> FALSE, elements |-> <<>>, listing |-> <<A, B>>]
PathInfoOfA == [p \in OutPaths |-> IF p = A THEN <<Record(A, ADrv), Record(B, None)>>
                                   ELSE <<Record(B, BDrv)>>]
FeedPkgs == {<<"foo-1">>, <<SkipDrv, "bar-2">>}

\* Two Store instances, one in closure mode and one not: the public
\* operations of Store called on the first in any order, with add_path calls
\* on the second in between.
InitStoreWorlds ==
    \/ /\ \E ex \in {{}, {ADrv}, DrvPaths}, help \in BOOLEAN, qd \in QdReplies \ {Empty},
             key \in KeyReplies :
             /\ exists = OutPaths \cup ex
             /\ nixdb = NixDb(help, qd, key, PathInfoOfA)
       /\ recipes = BothLoad
       /\ manifest = OneElement
    \/ /\ exists = Paths
       /\ nixdb = NixDb(TRUE, ADrv, BDrv, PathInfoOfA)
       /\ recipes \in Loads
       /\ manifest \in {OneElement, ListedProfile}
InitStore ==
    /\ FilteredIdle
    /\ InitStoreWorlds
    /\ shapes = NewAndOldNix
    /\ \E requisites \in BOOLEAN, closure \in BOOLEAN :
          store = [s \in StoreIds |-> NewStore(requisites, IF s = 1 THEN closure ELSE ~closure)]
    /\ slast = NoStoreCall
NextStore ==
    \/ \E s \in StoreIds, path \in Paths : AddPath(s, path)
    \/ AddProfile(1)
    \/ AddGcRoots(1)
    \/ \E drv_path \in {None, Empty, A, ADrv, BDrv} : Update(1, drv_path)
    \/ \E pkgs \in FeedPkgs : LoadPkgsJson(1, pkgs)
SpecStore == InitStore /\ [][NextStore]_vars

\* The same calls made on Store 1, whose tools write mappings, and on Store 2,
\* whose tools write lists, over the same store contents.
add_path_both(path) ==
    /\ \A s \in StoreIds : Alive(s)
    /\ store' = [s \in StoreIds |-> Stored(s, add_path(Machine(s), s, path))]
    /\ slast' = [NoStoreCall EXCEPT !.op = "add_path", !.path = path]
    /\ UNCHANGED <<fvars, last, exists, recipes, nixdb, manifest, shapes>>
add_profile_both ==
    /\ \A s \in StoreIds : Alive(s)
    /\ store' = [s \in StoreIds |-> Stored(s, add_profile(Machine(s), s))]
    /\ slast' = [NoStoreCall EXCEPT !.op = "add_profile"]
    /\ UNCHANGED <<fvars, last, exists, recipes, nixdb, manifest, shapes>>

\* path-info results: up to MaxRecords records, no path twice (a mapping has
\* each key once)
Records == {Record(path, deriver) : path \in {A, B, ADrv},
                                    deriver \in {None, Empty, Unknown, ADrv, BDrv}}
Contents ==
    UNION {{c \in [1..n -> Records] :
              \A j, k \in 1..n : j # k => c[j].path # c[k].path} : n \in 0..MaxRecords}
\* manifests: up to MaxElements elements
Elements == {Element(active, storePaths) :
                active \in BOOLEAN, storePaths \in {<<>>, <<A>>, <<B>>, <<A, B>>}}
Manifests == UNION {[1..n -> Elements] : n \in 0..MaxElements}

\* closure-mode Stores over every path-info result of output a
InitPathInfoShapes ==
    /\ \E ex \in SUBSET DrvPaths, help \in BOOLEAN, key \in KeyReplies, c \in Contents :
          /\ exists = OutPaths \cup ex
          /\ nixdb = NixDb(help, Unknown, key, [p \in OutPaths |-> IF p = A THEN c
                                                 ELSE <<Record(B, BDrv)>>])
    /\ manifest = OneElement
    /\ store = [s \in StoreIds |-> NewStore(TRUE, TRUE)]
\* Stores of every mode over every manifest
InitManifestShapes ==
    /\ \E ex \in SUBSET (DrvPaths \cup {B}) :
          exists = {A} \cup ex
    /\ nixdb = NixDb(TRUE, ADrv, BDrv, [p \in OutPaths |->
                        IF p = A THEN <<Record(A, ADrv), Record(B, None)>>
                        ELSE <<Record(B, BDrv)>>])
    /\ \E elements \in Manifests :
          manifest = [present |-> TRUE, elements |-> elements, listing |-> <<>>]
    /\ \E requisites \in BOOLEAN, closure \in BOOLEAN :
          store = [s \in StoreIds |-> NewStore(requisites, closure)]
InitShapes ==
    /\ FilteredIdle
    /\ recipes = BothLoad
    /\ shapes = NewAndOldNix
    /\ slast = NoStoreCall
    /\ InitPathInfoShapes \/ InitManifestShapes
NextShapes ==
    \/ \E path \in Paths : add_path_both(path)
    \/ add_profile_both
SpecShapes == InitShapes /\ [][NextShapes]_vars

(* ===================================================== Filtered: claims *)
Min(S) == CHOOSE x \in S : \A y \in S : x <= y

\* C1: for every Filtered instance, after any sequence of add() calls, report
\* and masked are disjoint and their union is the advisory set the instance
\* was constructed with.
C1_Partition ==
    \A i \in live :
        /\ Report(i) \cap masked[i] = {}
        /\ Report(i) \cup masked[i] = initial[i]

\* two rules applied, the first a specific one, with advisories on both sides
C1_Witness ==
    /\ last.op = "add" /\ Len(rules[1]) = 2
    /\ TruthySet(rules[1][1].cve)
    /\ Report(1) # {} /\ masked[1] # {}

\* C2: suppression is irreversible: over every step masked only grows and
\* report only shrinks, so a suppressed advisory never returns to report.
C2_Irreversible ==
    [][\A i \in Insts :
          /\ masked[i] \subseteq masked'[i]
          /\ heap'[report'[i]] \subseteq Report(i)]_vars

\* an add() on an instance that already had suppressed advisories
C2_Witness ==
    /\ last.op = "add" /\ last.pre_masked # {}
    /\ last.pre_masked \subseteq masked[last.inst]
    /\ last.rule.cve \cap last.pre_masked # {}

\* C3: add() of a blanket rule (no advisory-identifier set) leaves report empty
\* and masked equal to the whole initial advisory set, whatever came before.
C3_Blanket ==
    (last.op = "add" /\ ~TruthySet(last.rule.cve)) =>
        /\ Report(last.inst) = {}
        /\ masked[last.inst] = initial[last.inst]

\* a blanket rule applied after a specific rule that left advisories active
C3_Witness ==
    /\ last.op = "add" /\ ~TruthySet(last.rule.cve)
    /\ Len(rules[last.inst]) = 2
    /\ last.pre_masked # {} /\ last.pre_report # {}

\* C4: add() of a rule with a non-empty identifier set S moves exactly the
\* active advisories whose identifier is in S to masked; the other active
\* advisories stay active and the suppressed ones stay suppressed.
C4_Specific ==
    (last.op = "add" /\ TruthySet(last.rule.cve)) =>
        /\ Report(last.inst) = last.pre_report \ last.rule.cve
        /\ masked[last.inst] = last.pre_masked \cup (last.pre_report \cap last.rule.cve)

\* a specific rule that moves one advisory, leaves one active, and names one
\* that was suppressed before
C4_Witness ==
    /\ last.op = "add" /\ TruthySet(last.rule.cve)
    /\ last.pre_report \cap last.rule.cve # {}
    /\ last.pre_report \ last.rule.cve # {}
    /\ last.pre_masked # {}

\* the expiry dates of the rules applied to instance i
Expiries(i) == {rules[i][k].until : k \in 1..Len(rules[i])} \ {NoDate}

\* C5: until is the minimum expiry date over the applied rules that carry one,
\* and unset when none does; an add() never increases it and an add() of a
\* rule without expiry leaves it unchanged.
C5_Until ==
    /\ \A i \in live :
          until[i] = IF Expiries(i) = {} THEN NoDate ELSE Min(Expiries(i))
    /\ last.op = "add" =>
          /\ ~TruthyDate(last.rule.until) => until[last.inst] = last.pre_until
          /\ TruthyDate(last.pre_until) =>
                /\ TruthyDate(until[last.inst])
                /\ until[last.inst] <= last.pre_until

\* a later rule expires after an earlier one: until keeps the earlier date
C5_Witness ==
    /\ Len(rules[1]) = 2
    /\ TruthyDate(rules[1][1].until)
    /\ rules[1][2].until > rules[1][1].until
    /\ until[1] = rules[1][1].until

(* ==================================================== rendering: claims *)
\* the advisories of the lines of `out` marked wl, in the order written
RECURSIVE Written(_, _)
Written(out, wl) ==
    IF out = <<>> THEN <<>>
    ELSE (IF Head(out).kind = "vuln" /\ Head(out).wl = wl THEN <<Head(out).id>> ELSE <<>>)
         \o Written(Tail(out), wl)

\* descending score, ties by ascending identifier
MostSevereFirst(seq) ==
    \A a, b \in 1..Len(seq) :
        a < b => \/ cvssv3[seq[a]] > cvssv3[seq[b]]
                 \/ cvssv3[seq[a]] = cvssv3[seq[b]] /\ seq[a] < seq[b]
Range(seq) == {seq[k] : k \in 1..Len(seq)}

\* C8: Filtered.print writes the active advisories, and with show_masked the
\* suppressed ones, each list in order of descending score (unscored: 0),
\* ties by ascending identifier.
C8_SortOrder ==
    last.op = "print" =>
        LET act == Written(last.out, FALSE)
            sup == Written(last.out, TRUE)
            i == last.inst
        IN /\ MostSevereFirst(act) /\ MostSevereFirst(sup)
           /\ (last.out # <<>>) => Range(act) = Report(i) /\ Len(act) = Cardinality(Report(i))
           /\ (last.show) => Range(sup) = masked[i] /\ Len(sup) = Cardinality(masked[i])
           /\ (~last.show) => sup = <<>>

\* a print of two active advisories where the higher identifier has the
\* higher score, and two suppressed ones with equal scores
C8_Witness ==
    /\ last.op = "print" /\ last.show
    /\ \E a, b \in Report(last.inst) : a < b /\ cvssv3[a] < cvssv3[b]
    /\ Len(Written(last.out, FALSE)) = 2
    /\ Len(Written(last.out, TRUE)) = 1

\* C6: output() returns 2 when some item has active advisories, whatever
\* show_whitelisted and the format; else 1 exactly when show_whitelisted is
\* set and some item has suppressed advisories; else 0.
C6_ExitCode ==
    last.op = "output" =>
        LET anyActive == \E k \in 1..Len(last.items) : Report(last.items[k]) # {}
            anyMasked == \E k \in 1..Len(last.items) : masked[last.items[k]] # {}
        IN /\ anyActive => last.ret = 2
           /\ (~anyActive /\ last.show /\ anyMasked) => last.ret = 1
           /\ (~anyActive /\ ~(last.show /\ anyMasked)) => last.ret = 0
           /\ last.items = <<>> => last.ret = 0

\* show_whitelisted output of two items, one with active and one with only
\* suppressed advisories: 2, not 1
C6_Witness ==
    /\ last.op = "output" /\ last.show /\ Len(last.items) = 2
    /\ Report(last.items[1]) = {} /\ masked[last.items[1]] # {}
    /\ Report(last.items[2]) # {}
    /\ last.ret = 2

(* ======================================================== Store: claims *)
\* C9: for a path with the .drv suffix _find_deriver returns that path at
\* once, without any external query, whatever deriver metadata the caller
\* passed (a deriver, an absent or empty one, or none).
C9_SuffixIsDeriver ==
    (slast.op = "_find_deriver" /\ endswith_drv(slast.path)) =>
        /\ slast.ret = slast.path
        /\ slast.calls = <<>>
        /\ slast.err = NoError

\* what the code does for C9: the path is returned when the deriver passed is
\* neither None nor empty, and None is returned otherwise
C9_AsCoded ==
    (slast.op = "_find_deriver" /\ endswith_drv(slast.path)) =>
        /\ slast.ret = IF Truthy(slast.qpi_deriver) THEN slast.path ELSE None
        /\ slast.calls = <<>>
        /\ slast.err = NoError

\* the candidates _find_deriver tried for the last call
MetadataDeriver ==
    IF slast.qpi_deriver = Undef THEN nixdb.qd[slast.path] ELSE slast.qpi_deriver
Candidates ==
    (IF Truthy(MetadataDeriver) /\ MetadataDeriver # Unknown THEN {MetadataDeriver} ELSE {})
    \cup (IF Truthy(nixdb.show[slast.path].key) THEN {nixdb.show[slast.path].key} ELSE {})
Outcome(allowNone) ==
    \/ /\ slast.err = NoError
       /\ \/ Truthy(slast.ret) /\ slast.ret \in exists
          \/ allowNone /\ slast.ret = None /\ ~Truthy(slast.qpi_deriver)
    \/ /\ slast.err.kind = "Couldn't find deriver"
       /\ Candidates # {} /\ Candidates \cap exists = {}
       /\ {slast.err.named[k] : k \in 1..Len(slast.err.named)} = Candidates
    \/ /\ slast.err.kind = "Cannot determine deriver"
       /\ Candidates = {}

\* C10: for a path without the .drv suffix, whatever deriver metadata the
\* caller passed (an absent or empty deriver included), _find_deriver returns a
\* deriver that exists on disk or fails: naming every candidate tried when
\* none of them exists, or for want of any candidate.  It never returns
\* without a deriver.
C10_DeriverOrFatal ==
    (slast.op = "_find_deriver" /\ Truthy(slast.path) /\ ~endswith_drv(slast.path)) =>
        Outcome(FALSE)

\* what the code does for C10: as claimed, but None is returned, with no
\* failure, when the deriver passed is None or empty
C10_AsCoded ==
    (slast.op = "_find_deriver" /\ Truthy(slast.path) /\ ~endswith_drv(slast.path)) =>
        Outcome(TRUE)

\* C7: for the same content, the mapping-shaped and the list-shaped encoding of
\* the profile manifest and of the closure-mode path-info result end with the
\* same Store.derivations (and the same failure, if any).
C7_SameDiscovery ==
    /\ store[1].derivations = store[2].derivations
    /\ store[1].err = store[2].err

\* a closure-mode add_path over a path-info result of two records, one of them
\* without deriver, that registered a derivation
C7_Witness ==
    /\ slast.op = "add_path" /\ slast.path = A
    /\ store[1].closure
    /\ Len(nixdb.path_info[A]) = 2
    /\ \E k \in 1..2 : nixdb.path_info[A][k].deriver = None
    /\ store[1].derivations # {} /\ Alive(1)

\* an add_profile over a manifest of an inactive and an active element
C7_WitnessProfile ==
    /\ slast.op = "add_profile"
    /\ Len(manifest.elements) = 2
    /\ ~manifest.elements[1].active /\ manifest.elements[2].active
    /\ store[2].derivations # {} /\ Alive(2)

\* the calls of `nix` subcommands among the commands of one call
NixQueries(calls) ==
    {k \in 1..Len(calls) : calls[k].cmd \in {"nix show-derivation", "nix path-info -r --json"}}

\* C11: `nix --help` runs at most once per Store instance over any sequence of
\* operations: the first nix query of an instance is preceded by the probe,
\* which stores its result; later queries of the instance use the stored
\* value without probing; an operation on one instance leaves the stored
\* value of the other instance as it was (unprobed, if it has not queried).
C11_ProbeOnce ==
    /\ \A s \in StoreIds :
          /\ store[s].probes <= 1
          /\ store[s].probes = 0 <=> store[s].experimental_flag_needed = "None"
          /\ store[s].probes = 1 =>
                store[s].experimental_flag_needed = IF nixdb.help THEN "True" ELSE "False"
    /\ slast.op # "none" =>
          LET s == slast.store
              was == slast.before[s].experimental_flag_needed
              now == store[s].experimental_flag_needed
              queries == NixQueries(slast.calls)
          IN /\ \A t \in StoreIds \ {s} : store[t] = slast.before[t]
             /\ was # "None" => Probes(slast.calls) = 0 /\ now = was
             /\ (was = "None" /\ queries = {}) => Probes(slast.calls) = 0 /\ now = "None"
             /\ (was = "None" /\ queries # {}) =>
                   /\ Probes(slast.calls) = 1
                   /\ Min(queries) > 1 /\ slast.calls[Min(queries) - 1].cmd = "nix --help"
             /\ \A k \in queries : slast.calls[k].experimental = (now = "True")

\* an operation that queried nix twice on an instance probed by an earlier
\* operation, while the other instance is still unprobed
C11_Witness ==
    /\ slast.op = "add_path"
    /\ slast.before[slast.store].experimental_flag_needed # "None"
    /\ Cardinality(NixQueries(slast.calls)) >= 2
    /\ store[slast.store].probes = 1
    /\ \E t \in StoreIds \ {slast.store} : store[t].experimental_flag_needed = "None"

\* C12: add_path on a path that does not exist fails, in closure and in
\* non-closure mode, before any command is run and with Store.derivations
\* and the stored probe result as they were.
C12_MissingPathFails ==
    (slast.op = "add_path" /\ slast.path \notin exists) =>
        LET s == slast.store
        IN /\ slast.err.kind = "does not exist" /\ slast.err.path = slast.path
           /\ slast.calls = <<>>
           /\ store[s].derivations = slast.before[s].derivations
           /\ store[s].experimental_flag_needed = slast.before[s].experimental_flag_needed

\* the failing call on a non-closure Store that had registered a derivation
\* and probed before
C12_Witness ==
    /\ slast.op = "add_path" /\ slast.path \notin exists
    /\ ~store[slast.store].closure
    /\ slast.before[slast.store].derivations # {}
    /\ slast.before[slast.store].experimental_flag_needed # "None"
    /\ ~Alive(slast.store)

\* the same on a closure-mode Store
C12_WitnessClosure ==
    /\ slast.op = "add_path" /\ slast.path \notin exists
    /\ store[slast.store].closure
    /\ slast.before[slast.store].derivations # {}
    /\ slast.before[slast.store].experimental_flag_needed # "None"
    /\ ~Alive(slast.store)

\* C15: update leaves Store.derivations unchanged, and raises nothing, for an
\* absent or empty candidate, a candidate without the .drv suffix and a
\* candidate whose load raises SkipDrv; otherwise it adds exactly the loaded
\* Derive, which changes nothing when an equal one is present.  No Store
\* operation removes a member of Store.derivations.
C15_Update ==
    /\ slast.op = "update" =>
          LET s == slast.store
              cand == slast.path
              ignored == \/ ~Truthy(cand)
                         \/ ~endswith_drv(cand)
                         \/ recipes[cand] = SkipDrv
          IN /\ slast.err = NoError /\ slast.calls = <<>>
             /\ ignored => store[s].derivations = slast.pre
             /\ ~ignored => store[s].derivations = slast.pre \cup {recipes[cand]}
             /\ (~ignored /\ recipes[cand] \in slast.pre) => store[s].derivations = slast.pre
    /\ slast.op # "none" =>
          \A t \in StoreIds : slast.before[t].derivations \subseteq store[t].derivations

\* an update that loads a Derive equal to the one registered from another
\* recipe path
C15_Witness ==
    /\ slast.op = "update" /\ slast.path = BDrv
    /\ recipes[ADrv] = recipes[BDrv]
    /\ slast.pre = {recipes[BDrv]}
    /\ store[slast.store].derivations = slast.pre

\* an update whose load raises SkipDrv, on a Store with a derivation
C15_WitnessSkip ==
    /\ slast.op = "update" /\ endswith_drv(slast.path)
    /\ recipes[slast.path] = SkipDrv
    /\ slast.pre # {}

\* the deriver of an existing path, as the store's answers give it
Resolved(path) ==
    IF endswith_drv(path) THEN path
    ELSE IF nixdb.qd[path] # Unknown /\ Truthy(nixdb.qd[path]) /\ nixdb.qd[path] \in exists
    THEN nixdb.qd[path]
    ELSE nixdb.show[path].key
\* the Derives registered from a set of submitted paths
Registered(paths) == {recipes[q] : q \in {r \in paths : endswith_drv(r)}} \ {SkipDrv}
RequisiteQueries(calls) == {k \in 1..Len(calls) : calls[k].cmd = "nix-store -qR"}

\* C16: add_path in non-closure mode on an existing path whose deriver is
\* found: with requisites it queries the requisites of the deriver once and
\* registers every path of the answer that has the .drv suffix and nothing
\* else; without requisites it registers the deriver alone and makes no
\* requisites query.
C16_NonClosure ==
    (/\ slast.op = "add_path" /\ slast.path \in exists
     /\ ~store[slast.store].closure /\ slast.err = NoError) =>
        LET s == slast.store
            deriver == Resolved(slast.path)
            queries == RequisiteQueries(slast.calls)
        IN IF store[s].requisites
           THEN /\ queries = {Len(slast.calls)}
                /\ slast.calls[Len(slast.calls)].arg = deriver
                /\ store[s].derivations =
                      slast.pre \cup Registered(Range(nixdb.requisites[deriver]))
           ELSE /\ queries = {}
                /\ store[s].derivations = slast.pre \cup Registered({deriver})

\* with requisites: the deriver of output b resolved from the metadata, its
\* requisites two recipes and an output path, both recipes registered
C16_Witness ==
    /\ slast.op = "add_path" /\ slast.path = B /\ slast.err = NoError
    /\ ~store[slast.store].closure /\ store[slast.store].requisites
    /\ Resolved(B) = BDrv
    /\ slast.pre = {}
    /\ Cardinality(store[slast.store].derivations) = 2

\* without requisites: the deriver alone
C16_WitnessSingle ==
    /\ slast.op = "add_path" /\ slast.path = B /\ slast.err = NoError
    /\ ~store[slast.store].closure /\ ~store[slast.store].requisites
    /\ Resolved(B) = BDrv
    /\ slast.pre = {}
    /\ store[slast.store].derivations = {recipes[BDrv]}

\* the metadata deriver of the last call is accepted: present, not the
\* unknown-deriver sentinel, and on disk
MetadataAccepted ==
    Truthy(MetadataDeriver) /\ MetadataDeriver # Unknown /\ MetadataDeriver \in exists
DescriptionQueries(calls) == {k \in 1..Len(calls) : calls[k].cmd = "nix show-derivation"}
DeriverQueries(calls) == {k \in 1..Len(calls) : calls[k].cmd = "nix-store -qd"}

\* C17: for a path without the .drv suffix the metadata deriver, the one the
\* caller passed or the answer of `nix-store -qd` when the caller passed none,
\* is tried first: when it is accepted it is returned and `nix
\* show-derivation` is not run; `nix show-derivation` is run only when it was
\* rejected, after the metadata query, and its key is returned when it is on
\* disk.
C17_ResolutionOrder ==
    (slast.op = "_find_deriver" /\ Truthy(slast.path) /\ ~endswith_drv(slast.path)) =>
        LET described == DescriptionQueries(slast.calls)
            asked == DeriverQueries(slast.calls)
            key == nixdb.show[slast.path].key
        IN /\ slast.qpi_deriver = Undef => asked = {1}
           /\ slast.qpi_deriver # Undef => asked = {}
           /\ MetadataAccepted =>
                 /\ slast.ret = MetadataDeriver /\ slast.err = NoError
                 /\ described = {}
           /\ described # {} =>
                 /\ ~MetadataAccepted
                 /\ Cardinality(described) = 1
                 /\ \A k \in described, j \in asked : j < k
                 /\ (Truthy(key) /\ key \in exists) => slast.ret = key /\ slast.err = NoError

\* the caller passed none, the answer of `nix-store -qd` is not on disk, the
\* key of the recipe description is: the key is returned
C17_Witness ==
    /\ slast.op = "_find_deriver" /\ slast.path = A /\ slast.qpi_deriver = Undef
    /\ nixdb.qd[A] = BDrv /\ BDrv \notin exists
    /\ nixdb.show[A].key = ADrv /\ ADrv \in exists
    /\ slast.ret = ADrv
    /\ Len(slast.calls) >= 2

\* both candidates are on disk: the metadata deriver is returned
C17_WitnessMetadata ==
    /\ slast.op = "_find_deriver" /\ slast.path = A /\ slast.qpi_deriver = BDrv
    /\ BDrv \in exists
    /\ nixdb.show[A].key = ADrv /\ ADrv \in exists
    /\ slast.ret = BDrv /\ slast.calls = <<>>

(* ============================================ rendering: claims, continued *)
Ascending(seq) == \A a, b \in 1..Len(seq) : a < b => seq[a] < seq[b]
\* seq lists the elements of S in ascending order, each once
SortedListOf(seq, S) == Ascending(seq) /\ Range(seq) = S
\* pairs is a mapping of exactly the keys in S, to f
MappingOf(pairs, S, f) == pairs = {<<v, f[v]>> : v \in S}

\* C13: output_json writes one object for exactly the items with a non-empty
\* report, or for every item with show_whitelisted; in each object
\* affected_by lists the active identifiers in order, whitelisted the
\* suppressed ones in order, cvssv3_basescore maps exactly the active or
\* suppressed advisories with a non-zero score to it, and description exactly
\* those with a non-empty description to it.
C13_JsonContent ==
    (last.op = "output" /\ last.json) =>
        LET objs == last.out
            qualifying == {i \in Range(last.items) : Report(i) # {} \/ last.show}
        IN /\ {objs[k].name : k \in 1..Len(objs)} = qualifying
           /\ Len(objs) = Cardinality(qualifying)
           /\ \A k \in 1..Len(objs) :
                 LET o == objs[k]
                     i == o.name
                     all == Report(i) \cup masked[i]
                 IN /\ SortedListOf(o.affected_by, Report(i))
                    /\ SortedListOf(o.whitelisted, masked[i])
                    /\ MappingOf(o.cvssv3_basescore, {v \in all : cvssv3[v] # 0}, cvssv3)
                    /\ MappingOf(o.description, {v \in all : description[v] # ""},
                                 description)

\* without show_whitelisted, two items: the second left out, the first with
\* two suppressed advisories, one scored and described, and an active one
\* that is neither
C13_Witness ==
    /\ last.op = "output" /\ last.json /\ ~last.show
    /\ Len(last.items) = 2 /\ Len(last.out) = 1
    /\ last.out[1].name = 1
    /\ masked[1] = {1, 2} /\ Report(1) = {3}
    /\ cvssv3[1] # 0 /\ description[1] # "" /\ cvssv3[2] = 0 /\ description[2] = ""
    /\ cvssv3[3] = 0 /\ description[3] = ""
    /\ last.out[1].cvssv3_basescore = {<<1, cvssv3[1]>>}

\* the items of the last output() call that have a suppressed advisory
Suppressed == {k \in 1..Len(last.items) : masked[last.items[k]] # {}}
NoneActive == \A k \in 1..Len(last.items) : Report(last.items[k]) = {}

\* C14: output_text without show_whitelisted on items none of which has an
\* active advisory writes the "no advisories" message exactly when no item
\* has a suppressed advisory either, and otherwise the "nothing to show"
\* message with the number of items whose advisories were all suppressed;
\* in both cases nothing else is written.
C14_Messages ==
    (last.op = "output" /\ ~last.json /\ ~last.show /\ NoneActive) =>
        IF Suppressed = {}
        THEN last.out = <<Line("no advisories", 0, FALSE)>>
        ELSE last.out = <<Line("nothing to show", Cardinality(Suppressed), FALSE)>>

\* what the code does for C14: "no advisories" for the empty collection only,
\* otherwise "nothing to show" with the number of items, those that never had
\* an advisory included
C14_AsCoded ==
    (last.op = "output" /\ ~last.json /\ ~last.show /\ NoneActive) =>
        IF last.items = <<>>
        THEN last.out = <<Line("no advisories", 0, FALSE)>>
        ELSE last.out = <<Line("nothing to show", Len(last.items), FALSE)>>

\* an item that never had an advisory next to one whose advisories are all
\* suppressed
C14_WitnessAsCoded ==
    /\ last.op = "output" /\ ~last.json /\ ~last.show /\ NoneActive
    /\ Len(last.items) = 2
    /\ initial[last.items[1]] = {} /\ masked[last.items[2]] # {}

\* the derivations output() listed, in the order written
RECURSIVE Headers(_)
Headers(out) ==
    IF out = <<>> THEN <<>>
    ELSE (IF Head(out).kind = "derivation" THEN <<Head(out).id>> ELSE <<>>)
         \o Headers(Tail(out))
Listed ==
    IF last.json THEN [k \in 1..Len(last.out) |-> last.out[k].name]
    ELSE Headers(last.out)
RECURSIVE Those(_, _)
Those(seq, active) ==
    IF seq = <<>> THEN <<>>
    ELSE (IF (Report(Head(seq)) # {}) = active THEN <<Head(seq)>> ELSE <<>>)
         \o Those(Tail(seq), active)

\* C18: for every collection and every value of show_whitelisted, the
\* derivations output_text lists and the objects output_json writes are in
\* ascending order of derivation name over the whole output.
C18_NameOrder ==
    last.op = "output" => Ascending(Listed)

\* C18 as amended: the objects of output_json are in ascending order of
\* derivation name; output_text lists first the derivations with active
\* advisories, in ascending order of name, and then, with show_whitelisted,
\* those without active advisories, in ascending order of name.
C18_NameOrderGrouped ==
    last.op = "output" =>
        /\ last.json => Ascending(Listed)
        /\ ~last.json =>
              /\ Listed = Those(Listed, TRUE) \o Those(Listed, FALSE)
              /\ Ascending(Those(Listed, TRUE))
              /\ Ascending(Those(Listed, FALSE))
              /\ Range(Those(Listed, TRUE)) = {i \in Range(last.items) : Report(i) # {}}
              /\ Range(Those(Listed, FALSE)) =
                    IF last.show THEN {i \in Range(last.items) : Report(i) = {}} ELSE {}

\* output_text with show_whitelisted of the items in ascending order, the
\* first fully suppressed and the second active: the second is listed first
C18_Witness ==
    /\ last.op = "output" /\ ~last.json /\ last.show
    /\ last.items = <<1, 2>>
    /\ Report(1) = {} /\ masked[1] # {} /\ Report(2) # {}
    /\ Listed = <<2, 1>>

\* output_json of two active items passed in descending order
C18_WitnessJson ==
    /\ last.op = "output" /\ last.json
    /\ last.items = <<2, 1>>
    /\ Listed = <<1, 2>>

(* ============================================ Filtered: claims, continued *)
\* how often rule r occurs in seq
Count(seq, r) == Cardinality({k \in 1..Len(seq) : seq[k] = r})
\* the same rules, each as often, in any order
SameRules(i, j) == \A r \in whitelist : Count(rules[i], r) = Count(rules[j], r)

\* C19: two instances constructed from equal advisory sets to which the same
\* rules were applied, in whatever order, have equal report, masked and
\* until; and an add() of a rule the instance was given before changes none
\* of the three.
C19_OrderIndependent ==
    /\ \A i, j \in live :
          (initial[i] = initial[j] /\ SameRules(i, j)) =>
              /\ Report(i) = Report(j)
              /\ masked[i] = masked[j]
              /\ until[i] = until[j]
    /\ (last.op = "add" /\ Count(rules[last.inst], last.rule) >= 2) =>
          /\ Report(last.inst) = last.pre_report
          /\ masked[last.inst] = last.pre_masked
          /\ until[last.inst] = last.pre_until

\* two different rules with overlapping identifiers and different expiry
\* dates, applied in one order to the first instance and in the other to the
\* second
C19_Witness ==
    /\ Len(rules[1]) = 2 /\ Len(rules[2]) = 2
    /\ rules[1][1] # rules[1][2]
    /\ rules[2] = <<rules[1][2], rules[1][1]>>
    /\ rules[1][1].cve \cap rules[1][2].cve # {}
    /\ rules[1][1].cve # rules[1][2].cve
    /\ TruthyDate(rules[1][1].until) /\ rules[1][2].until > rules[1][1].until
    /\ masked[1] # {} /\ Report(1) # {}

\* a rule applied a second time
C19_WitnessTwice ==
    /\ last.op = "add" /\ Len(rules[last.inst]) = 2
    /\ rules[last.inst][1] = rules[last.inst][2]
    /\ TruthySet(last.rule.cve) /\ TruthyDate(last.rule.until)
    /\ last.pre_masked # {}

\* C20: the state of a Filtered instance changes only by add() on that
\* instance: an instance no rule was applied to has its whole advisory set
\* in report and nothing in masked whatever was applied to other instances,
\* also to one constructed from the same set object; and the set passed to
\* the constructor keeps the elements it had.
C20_Frame ==
    \A i \in live :
        /\ heap[given[i]] = initial[i]
        /\ rules[i] = <<>> => Report(i) = initial[i] /\ masked[i] = {}

\* what the code does for C20: an add() on one instance changes masked of
\* no other instance, and report of another instance only when both refer
\* to the same set object; the set passed to the constructor loses what a
\* specific rule suppresses while report refers to it
C20_AsCoded ==
    [][\A i \in live :
          /\ rules'[i] = rules[i] =>
                /\ masked'[i] = masked[i]
                /\ (\A j \in live : rules'[j] # rules[j] => report[j] # report[i]) =>
                      heap'[report'[i]] = Report(i)
          /\ heap'[given[i]] \subseteq heap[given[i]]]_vars

\* a specific rule applied to the first of two instances constructed from
\* the same set object: the advisory has left the report of the second
C20_WitnessAsCoded ==
    /\ given[1] = given[2]
    /\ rules[2] = <<>> /\ Len(rules[1]) = 1
    /\ Report(2) # initial[2] /\ masked[2] = {}

====
